---- MODULE Spec2Model ----
(***************************************************************************)
(* Onion-routing network: registry, onion routers, users.                  *)
(*                                                                         *)
(* Strings are sequences of elements.  An element is a single character    *)
(* [t |-> "ch"], the base64 text of an RSA-OAEP ciphertext [t |-> "rsa"],  *)
(* the base64 text of an AES-CBC ciphertext with its IV [t |-> "aes"], or  *)
(* a piece cut out of such a base64 text [t |-> "frag"].  Every element    *)
(* has a width in characters, so that slice() cuts where the code cuts.    *)
(***************************************************************************)
EXTENDS Integers, Sequences, FiniteSets, TLC

\* ------------------------------------------------------------------ bounds
MaxNodeId == 2
MaxSends == 1
MaxExternalRegistrations == 1

\* ------------------------------------------------------------------ config
\* the config module: router r listens on 4000 + r, user u on 3000 + u
BASE_ONION_ROUTER_PORT == 4000
BASE_USER_PORT == 3000

\* ------------------------------------------------------ widths in the code
\* message.slice(0, 344): the base64 text of a 2048-bit RSA ciphertext
RSA_B64_LEN == 344
\* decryptedMessage.slice(0, 10)
DEST_FIELD_LEN == 10
\* webcrypto.getRandomValues(new Uint8Array(16)), AES block
AES_BLOCK == 16
\* while (circuit.length < 3)
CIRCUIT_LEN == 3

NodeIds == 0..MaxNodeId
Sends == 1..MaxSends
\* users launched: user 1 (port 3001) and user 27010 (port 30010)
UserIds == {1, 27010}
\* destinationUserId of a /sendMessage body; -1 addresses port 2999
DestinationUserIds == UserIds \cup {-1}

None == <<>>
Some(x) == <<x>>

\* ---------------------------------------------------------------- strings
Ch(c) == [t |-> "ch", v |-> c]
Frag(n) == [t |-> "frag", len |-> n]
DigitChars == <<"0", "1", "2", "3", "4", "5", "6", "7", "8", "9">>
IsDigit(e) == e.t = "ch" /\ \E d \in 1..10 : DigitChars[d] = e.v
DigitValue(e) == (CHOOSE d \in 1..10 : DigitChars[d] = e.v) - 1

\* plaintexts of /sendMessage, well-formed strings: "hi", and "7", which
\* would read on as a port if a destination field were cut short
Hi == <<Ch("h"), Ch("i")>>
Seven == <<Ch("7")>>
Messages == {Hi, Seven}

RECURSIVE Digits(_)
Digits(n) ==
  IF n < 10 THEN <<Ch(DigitChars[n + 1])>>
  ELSE Append(Digits(n \div 10), Ch(DigitChars[(n % 10) + 1]))

\* `${n}` of a template literal, n an integer
NumberToString(n) == IF n < 0 THEN <<Ch("-")>> \o Digits(-n) ELSE Digits(n)

Base64Len(bytes) == 4 * ((bytes + 2) \div 3)
AesCbcLen(bytes) == AES_BLOCK * ((bytes \div AES_BLOCK) + 1)

RECURSIVE Utf8Len(_)
RECURSIVE Width(_)
Width(e) ==
  CASE e.t = "ch" -> 1
    [] e.t = "rsa" -> RSA_B64_LEN
    [] e.t = "aes" -> Base64Len(AES_BLOCK + AesCbcLen(Utf8Len(e.data)))
    [] e.t = "frag" -> e.len

Utf8Len(s) ==
  IF s = <<>> THEN 0
  ELSE (IF Head(s).t = "ch" /\ Head(s).v = "R" THEN 3 ELSE Width(Head(s)))
       + Utf8Len(Tail(s))

\* s.slice(0, n)
RECURSIVE SliceTo(_, _)
SliceTo(s, n) ==
  IF n <= 0 \/ s = <<>> THEN <<>>
  ELSE LET w == Width(Head(s)) IN
       IF w <= n THEN <<Head(s)>> \o SliceTo(Tail(s), n - w)
       ELSE <<Frag(n)>>

\* s.slice(n)
RECURSIVE SliceFrom(_, _)
SliceFrom(s, n) ==
  IF s = <<>> THEN <<>>
  ELSE IF n <= 0 THEN s
  ELSE LET w == Width(Head(s)) IN
       IF w <= n THEN SliceFrom(Tail(s), n - w)
       ELSE <<Frag(w - n)>> \o Tail(s)

\* parseInt(s, 10): the leading run of digits; NaN when there is none.
\* (No sign or blank ever leads a destination field cut from a layer.)
NaN == -1
RECURSIVE ParseDigits(_, _)
ParseDigits(s, acc) ==
  IF s = <<>> \/ ~IsDigit(Head(s)) THEN acc
  ELSE ParseDigits(Tail(s), 10 * acc + DigitValue(Head(s)))
parseInt(s) == IF s = <<>> \/ ~IsDigit(Head(s)) THEN NaN ELSE ParseDigits(s, 0)

\* new TextEncoder().encode(data): UTF-8, a lone surrogate ("S") encoded as
\* U+FFFD ("R"); every other character of the model is ASCII
RECURSIVE TextEncode(_)
TextEncode(s) ==
  IF s = <<>> THEN <<>>
  ELSE <<IF Head(s) = Ch("S") THEN Ch("R") ELSE Head(s)>> \o TextEncode(Tail(s))
\* new TextDecoder().decode(bytes), of bytes that TextEncode produced
TextDecode(s) == s

\* ----------------------------------------------------------------- crypto
\* A key pair is a number k >= 1: public key k, private key k.
NoKey == 0
\* a registered pubKey that is no importable public key (missing, malformed)
BadKey == -1

\* importPubKey throws on what is no spki key
rsaEncryptThrows(strPublicKey) == strPublicKey < 1
rsaEncrypt(b64Data, strPublicKey) ==
  <<[t |-> "rsa", pub |-> strPublicKey, data |-> b64Data]>>

\* RSA-OAEP decrypt throws unless data is a whole ciphertext under the
\* public key of privateKey
rsaDecryptThrows(data, privateKey) ==
  ~(Len(data) = 1 /\ data[1].t = "rsa" /\ data[1].pub = privateKey)
rsaDecrypt(data, privateKey) == data[1].data

symEncrypt(key, data) == <<[t |-> "aes", key |-> key, data |-> TextEncode(data)]>>
\* AES-CBC decrypt throws unless encryptedData is a whole ciphertext under strKey
symDecryptThrows(strKey, encryptedData) ==
  ~(Len(encryptedData) = 1 /\ encryptedData[1].t = "aes"
    /\ encryptedData[1].key = strKey)
symDecrypt(strKey, encryptedData) == TextDecode(encryptedData[1].data)

\* -------------------------------------------------------------- sender side
Includes(circuit, nodeId) == \E j \in 1..Len(circuit) : circuit[j] = nodeId

\* (mutant) the loop without its includes() test
CircuitStepNoCheck(circuit, randomNode) == Append(circuit, randomNode.nodeId)

\* one iteration of the selection loop, randomNode = nodes[idx]
CircuitStep(circuit, randomNode) ==
  IF ~Includes(circuit, randomNode.nodeId)
  THEN Append(circuit, randomNode.nodeId)
  ELSE circuit

\* (mutant) the last match instead of the first (findLast)
FindLast(registry, nodeId) ==
  IF \E j \in 1..Len(registry) : registry[j].nodeId = nodeId
  THEN CHOOSE j \in 1..Len(registry) :
         /\ registry[j].nodeId = nodeId
         /\ \A h \in (j + 1)..Len(registry) : registry[h].nodeId # nodeId
  ELSE 0

\* nodes.find((n) => n.nodeId === nodeId): index of the first match, 0 if none
Find(registry, nodeId) ==
  IF \E j \in 1..Len(registry) : registry[j].nodeId = nodeId
  THEN CHOOSE j \in 1..Len(registry) :
         /\ registry[j].nodeId = nodeId
         /\ \A h \in 1..(j - 1) : registry[h].nodeId # nodeId
  ELSE 0

\* `000000${port}`
DestinationField(port) ==
  <<Ch("0"), Ch("0"), Ch("0"), Ch("0"), Ch("0"), Ch("0")>> \o NumberToString(port)

\* createRandomSymmetricKey / exportSymKey: a fresh key per send and layer
SymmetricKey(s, i) == [send |-> s, layer |-> i]

\* the destination of layer i of the wrap loop
LayerDestination(circuit, destinationUserId, i) ==
  IF i = Len(circuit)
  THEN DestinationField(BASE_USER_PORT + destinationUserId)
  ELSE DestinationField(BASE_ONION_ROUTER_PORT + circuit[i + 1])

\* an iteration of the wrap loop throws: node not found, or its key not importable
WrapThrowsAt(registry, circuit, i) ==
  \/ Find(registry, circuit[i]) = 0
  \/ rsaEncryptThrows(registry[Find(registry, circuit[i])].pubKey)
\* (mutant) only the explicit not-found test throws; a key that cannot be
\* imported is passed over
WrapThrowsNotFoundOnly(registry, circuit) ==
  \E i \in 1..Len(circuit) : Find(registry, circuit[i]) = 0

\* the wrap loop throws
WrapThrows(registry, circuit) ==
  \E i \in 1..Len(circuit) : WrapThrowsAt(registry, circuit, i)

\* the wrap loop from iteration i down to the first node of the circuit
RECURSIVE WrapLoop(_, _, _, _, _, _)
WrapLoop(s, registry, circuit, destinationUserId, i, encryptedMessage) ==
  IF i = 0 THEN encryptedMessage
  ELSE LET node == registry[Find(registry, circuit[i])]
           symmetricKey == SymmetricKey(s, i)
           destination == LayerDestination(circuit, destinationUserId, i)
           messageToEncrypt == destination \o encryptedMessage
       IN WrapLoop(s, registry, circuit, destinationUserId, i - 1,
                   rsaEncrypt(symmetricKey, node.pubKey)
                     \o symEncrypt(symmetricKey, messageToEncrypt))

\* --------------------------------------------------------------- relay side
\* lines 55-61 of the /message handler throw
PeelThrows(message, privateKey) ==
  \/ rsaDecryptThrows(SliceTo(message, RSA_B64_LEN), privateKey)
  \/ symDecryptThrows(rsaDecrypt(SliceTo(message, RSA_B64_LEN), privateKey),
                      SliceFrom(message, RSA_B64_LEN))
\* lines 55-61: decryptedMessage
DecryptedMessage(message, privateKey) ==
  symDecrypt(rsaDecrypt(SliceTo(message, RSA_B64_LEN), privateKey),
             SliceFrom(message, RSA_B64_LEN))
Destination(decryptedMessage) == SliceTo(decryptedMessage, DEST_FIELD_LEN)
RemainingMessage(decryptedMessage) == SliceFrom(decryptedMessage, DEST_FIELD_LEN)
\* the body of the request the relay sends to nextDestination
ForwardBody(decryptedMessage) ==
  IF parseInt(Destination(decryptedMessage)) >= BASE_USER_PORT
  THEN RemainingMessage(decryptedMessage)
  ELSE Destination(decryptedMessage) \o RemainingMessage(decryptedMessage)

\* --------------------------------------------------------------------- state
VARIABLES
  nodes,      \* registry: sequence of [nodeId, pubKey]
  phase,      \* per router: "down", "registered", "listening"
  prvKey,     \* per router: its private key, NoKey before key generation
  keyCount,   \* key pairs generated so far
  extRegs,    \* /registerNode requests from other clients so far
  lastReceivedEncryptedMessage,  \* per router, None or Some(string)
  lastReceivedDecryptedMessage,  \* per router
  lastMessageDestination,        \* per router, None or Some(number)
  lastReceivedMessage,  \* module-level in the user file
  lastSentMessage,      \* module-level in the user file
  lastCircuit,          \* module-level in the user file
  send,       \* per /sendMessage request: its handler's locals and position
  calls       \* per /sendMessage request: the /message requests it caused

routerVars == <<lastReceivedEncryptedMessage, lastReceivedDecryptedMessage,
                lastMessageDestination>>
userVars == <<lastReceivedMessage, lastSentMessage, lastCircuit>>
registryVars == <<nodes, phase, prvKey, keyCount, extRegs>>
vars == <<nodes, phase, prvKey, keyCount, extRegs,
          lastReceivedEncryptedMessage, lastReceivedDecryptedMessage,
          lastMessageDestination, lastReceivedMessage, lastSentMessage,
          lastCircuit, send, calls>>

IdleSend == [pc |-> "idle", message |-> <<>>, destinationUserId |-> 0,
             nodes |-> <<>>, circuit |-> <<>>, error |-> "", fetched |-> "none"]

Init ==
  /\ nodes = <<>>
  /\ phase = [r \in NodeIds |-> "down"]
  /\ prvKey = [r \in NodeIds |-> NoKey]
  /\ keyCount = 0
  /\ extRegs = 0
  /\ lastReceivedEncryptedMessage = [r \in NodeIds |-> None]
  /\ lastReceivedDecryptedMessage = [r \in NodeIds |-> None]
  /\ lastMessageDestination = [r \in NodeIds |-> None]
  /\ lastReceivedMessage = None
  /\ lastSentMessage = None
  /\ lastCircuit = None
  /\ send = [s \in Sends |-> IdleSend]
  /\ calls = [s \in Sends |-> <<>>]

\* ------------------------------------------------------------------ registry
\* (mutant) a registration replaces the entry the identifier has already
registerNodeOverwrite(registry, nodeId, pubKey) ==
  IF \E j \in 1..Len(registry) : registry[j].nodeId = nodeId
  THEN [j \in 1..Len(registry) |->
          IF registry[j].nodeId = nodeId
          THEN [nodeId |-> nodeId, pubKey |-> pubKey] ELSE registry[j]]
  ELSE Append(registry, [nodeId |-> nodeId, pubKey |-> pubKey])

\* POST /registerNode
registerNode(registry, nodeId, pubKey) ==
  Append(registry, [nodeId |-> nodeId, pubKey |-> pubKey])

\* simpleOnionRouter(r) up to the end of registerNode(): key pair, registration
RouterRegister(r) ==
  /\ phase[r] = "down"
  /\ keyCount' = keyCount + 1
  /\ prvKey' = [prvKey EXCEPT ![r] = keyCount + 1]
  /\ nodes' = registerNode(nodes, r, keyCount + 1)
  /\ phase' = [phase EXCEPT ![r] = "registered"]
  /\ UNCHANGED <<extRegs, routerVars, userVars, send, calls>>

\* onionRouter.listen(BASE_ONION_ROUTER_PORT + nodeId)
RouterListen(r) ==
  /\ phase[r] = "registered"
  /\ phase' = [phase EXCEPT ![r] = "listening"]
  /\ UNCHANGED <<nodes, prvKey, keyCount, extRegs, routerVars, userVars, send, calls>>

\* POST /registerNode by any other client, with a body of its choice
ExternalRegister(nodeId, pubKey) ==
  /\ extRegs < MaxExternalRegistrations
  /\ extRegs' = extRegs + 1
  /\ nodes' = registerNode(nodes, nodeId, pubKey)
  /\ UNCHANGED <<phase, prvKey, keyCount, routerVars, userVars, send, calls>>

\* -------------------------------------------------------------------- network
IsUserPort(port) == (port - BASE_USER_PORT) \in UserIds
IsRouterPort(port) == (port - BASE_ONION_ROUTER_PORT) \in NodeIds
RouterAt(port) == port - BASE_ONION_ROUTER_PORT
Listening(port) ==
  \/ IsUserPort(port)
  \/ IsRouterPort(port) /\ phase[RouterAt(port)] = "listening"

\* fetch(`http://localhost:${port}/message`, {body: {message: body}}): the
\* request reaches a listener, or the connection is refused
Fetch(port, body) ==
  [port |-> port, body |-> body,
   st |-> IF Listening(port) THEN "sent" ELSE "refused"]

\* what the framework makes of a handler whose promise rejects: an error
\* response, or no response at all
ThrowOutcomes == {"err500", "hung"}
\* the awaited fetch resolves (whatever the status)
Resolved(call) == call.st \in {"ok", "err500"}
\* the awaited fetch rejects: connection refused, or no response in time
Rejected(call) == call.st \in {"refused", "hung"}

\* ---------------------------------------------------------------- /sendMessage
\* lines 52-55: the handler starts and requests the registry
SendMessage(s, message, destinationUserId) ==
  /\ send[s].pc = "idle"
  /\ \A q \in Sends : q < s => send[q].pc # "idle"
  /\ send' = [send EXCEPT ![s] = [@ EXCEPT !.pc = "getNodeRegistry",
                                          !.message = message,
                                          !.destinationUserId = destinationUserId]]
  /\ UNCHANGED <<registryVars, routerVars, userVars, calls>>

\* GET /getNodeRegistry answered: the snapshot of line 56
GetNodeRegistry(s) ==
  /\ send[s].pc = "getNodeRegistry"
  /\ send' = [send EXCEPT ![s] = [@ EXCEPT !.pc = "select", !.nodes = nodes]]
  /\ UNCHANGED <<registryVars, routerVars, userVars, calls>>

\* lines 59-65, an empty registry: nodes[0] is undefined, .nodeId throws
SelectThrows(s) ==
  /\ send[s].pc = "select"
  /\ Len(send[s].nodes) = 0
  /\ send' = [send EXCEPT ![s] = [@ EXCEPT !.pc = "failed", !.error = "TypeError"]]
  /\ UNCHANGED <<registryVars, routerVars, userVars, calls>>

\* lines 59-65: one iteration of the while loop with nodes[idx]; the
\* iteration that makes the circuit 3 long leaves the loop and sets lastCircuit
SelectNode(s, idx) ==
  /\ send[s].pc = "select"
  /\ idx \in 1..Len(send[s].nodes)
  /\ LET circuit == CircuitStep(send[s].circuit, send[s].nodes[idx]) IN
       /\ send' = [send EXCEPT ![s] =
                     [@ EXCEPT !.circuit = circuit,
                               !.pc = IF Len(circuit) < CIRCUIT_LEN THEN "select" ELSE "wrap"]]
       /\ lastCircuit' = IF Len(circuit) < CIRCUIT_LEN THEN lastCircuit ELSE Some(circuit)
  /\ UNCHANGED <<registryVars, routerVars, lastReceivedMessage, lastSentMessage, calls>>

\* the error of lines 67-88, if any
WrapError(registry, circuit) ==
  IF \E i \in 1..Len(circuit) : Find(registry, circuit[i]) = 0
  THEN "NodeNotFound" ELSE "KeyImportError"

\* (mutant) the request goes to the last node of the circuit
WrapAndDeliverToExit(s) ==
  /\ send[s].pc = "wrap"
  /\ IF WrapThrows(send[s].nodes, send[s].circuit)
     THEN /\ send' = [send EXCEPT ![s] =
                        [@ EXCEPT !.pc = "failed",
                                  !.error = WrapError(send[s].nodes, send[s].circuit)]]
          /\ UNCHANGED calls
     ELSE LET encryptedMessage ==
                WrapLoop(s, send[s].nodes, send[s].circuit,
                         send[s].destinationUserId, Len(send[s].circuit),
                         send[s].message)
              entryNodeId == send[s].circuit[Len(send[s].circuit)]
          IN /\ calls' = [calls EXCEPT ![s] =
                            <<Fetch(BASE_ONION_ROUTER_PORT + entryNodeId, encryptedMessage)>>]
             /\ send' = [send EXCEPT ![s] = [@ EXCEPT !.pc = "deliver"]]
  /\ UNCHANGED <<registryVars, routerVars, userVars>>

\* lines 67-95: the wrap loop, then the request to the entry node
WrapAndDeliver(s) ==
  /\ send[s].pc = "wrap"
  /\ IF WrapThrows(send[s].nodes, send[s].circuit)
     THEN /\ send' = [send EXCEPT ![s] =
                        [@ EXCEPT !.pc = "failed",
                                  !.error = WrapError(send[s].nodes, send[s].circuit)]]
          /\ UNCHANGED calls
     ELSE LET encryptedMessage ==
                WrapLoop(s, send[s].nodes, send[s].circuit,
                         send[s].destinationUserId, Len(send[s].circuit),
                         send[s].message)
              entryNodeId == send[s].circuit[1]
          IN /\ calls' = [calls EXCEPT ![s] =
                            <<Fetch(BASE_ONION_ROUTER_PORT + entryNodeId, encryptedMessage)>>]
             /\ send' = [send EXCEPT ![s] = [@ EXCEPT !.pc = "deliver"]]
  /\ UNCHANGED <<registryVars, routerVars, userVars>>

\* lines 95-99: the fetch resolved
SendComplete(s) ==
  /\ send[s].pc = "deliver"
  /\ Resolved(calls[s][1])
  /\ lastSentMessage' = Some(send[s].message)
  /\ send' = [send EXCEPT ![s] =
                [@ EXCEPT !.pc = "done",
                          !.fetched = IF calls[s][1].st = "ok" THEN "200" ELSE "500"]]
  /\ UNCHANGED <<registryVars, routerVars, lastReceivedMessage, lastCircuit, calls>>

\* line 91: the fetch rejected, the handler throws
SendDeliverFailed(s) ==
  /\ send[s].pc = "deliver"
  /\ Rejected(calls[s][1])
  /\ send' = [send EXCEPT ![s] =
                [@ EXCEPT !.pc = "failed", !.error = "FetchError",
                          !.fetched = "rejected"]]
  /\ UNCHANGED <<registryVars, routerVars, userVars, calls>>

\* ------------------------------------------------------------ router /message
\* lines 52-58, up to the first await
RelayReceive(s, k) ==
  /\ k \in 1..Len(calls[s])
  /\ calls[s][k].st = "sent"
  /\ IsRouterPort(calls[s][k].port)
  /\ lastReceivedEncryptedMessage' =
       [lastReceivedEncryptedMessage EXCEPT ![RouterAt(calls[s][k].port)] =
          Some(calls[s][k].body)]
  /\ calls' = [calls EXCEPT ![s][k].st = "received"]
  /\ UNCHANGED <<registryVars, lastReceivedDecryptedMessage, lastMessageDestination,
                 userVars, send>>

\* (mutant) the decrypted-message field is assigned before the decryption
RelayPeelThrowsRecorded(s, k, outcome) ==
  /\ k \in 1..Len(calls[s])
  /\ calls[s][k].st = "received"
  /\ PeelThrows(calls[s][k].body, prvKey[RouterAt(calls[s][k].port)])
  /\ calls' = [calls EXCEPT ![s][k].st = outcome]
  /\ lastReceivedDecryptedMessage' =
       [lastReceivedDecryptedMessage EXCEPT ![RouterAt(calls[s][k].port)] =
          Some(SliceFrom(calls[s][k].body, RSA_B64_LEN))]
  /\ UNCHANGED <<registryVars, lastReceivedEncryptedMessage, lastMessageDestination,
                 userVars, send>>

\* (mutant) a failed peel is caught and tried again: the handler does not settle
RelayPeelThrowsRetried(s, k, outcome) ==
  /\ k \in 1..Len(calls[s])
  /\ calls[s][k].st = "received"
  /\ PeelThrows(calls[s][k].body, prvKey[RouterAt(calls[s][k].port)])
  /\ UNCHANGED vars

\* lines 58-61 throw
RelayPeelThrows(s, k, outcome) ==
  /\ k \in 1..Len(calls[s])
  /\ calls[s][k].st = "received"
  /\ PeelThrows(calls[s][k].body, prvKey[RouterAt(calls[s][k].port)])
  /\ calls' = [calls EXCEPT ![s][k].st = outcome]
  /\ UNCHANGED <<registryVars, routerVars, userVars, send>>

\* (mutant) the handler does not record the destination (line 68 left out)
RelayPeelNoDestination(s, k) ==
  /\ k \in 1..Len(calls[s])
  /\ calls[s][k].st = "received"
  /\ LET r == RouterAt(calls[s][k].port)
         message == calls[s][k].body
     IN /\ ~PeelThrows(message, prvKey[r])
        /\ \E decryptedMessage \in {DecryptedMessage(message, prvKey[r])} :
           \E nextDestination \in {parseInt(Destination(decryptedMessage))} :
              /\ lastReceivedDecryptedMessage' =
                   [lastReceivedDecryptedMessage EXCEPT ![r] = Some(decryptedMessage)]
              /\ calls' = [calls EXCEPT ![s] =
                             Append([@ EXCEPT ![k].st = "forwarded"],
                                    Fetch(nextDestination, ForwardBody(decryptedMessage)))]
  /\ UNCHANGED <<registryVars, lastReceivedEncryptedMessage, lastMessageDestination,
                 userVars, send>>

\* lines 58-82: the peel, then the request to nextDestination (the constants
\* of the handler are bound as values, each computed once)
RelayPeel(s, k) ==
  /\ k \in 1..Len(calls[s])
  /\ calls[s][k].st = "received"
  /\ LET r == RouterAt(calls[s][k].port)
         message == calls[s][k].body
     IN /\ ~PeelThrows(message, prvKey[r])
        /\ \E decryptedMessage \in {DecryptedMessage(message, prvKey[r])} :
           \E nextDestination \in {parseInt(Destination(decryptedMessage))} :
              /\ lastReceivedDecryptedMessage' =
                   [lastReceivedDecryptedMessage EXCEPT ![r] = Some(decryptedMessage)]
              /\ lastMessageDestination' =
                   [lastMessageDestination EXCEPT ![r] = Some(nextDestination)]
              /\ calls' = [calls EXCEPT ![s] =
                             Append([@ EXCEPT ![k].st = "forwarded"],
                                    Fetch(nextDestination, ForwardBody(decryptedMessage)))]
  /\ UNCHANGED <<registryVars, lastReceivedEncryptedMessage, userVars, send>>

\* line 84: the awaited fetch resolved
RelayRespond(s, k) ==
  /\ k \in 1..(Len(calls[s]) - 1)
  /\ calls[s][k].st = "forwarded"
  /\ Resolved(calls[s][k + 1])
  /\ calls' = [calls EXCEPT ![s][k].st = "ok"]
  /\ UNCHANGED <<registryVars, routerVars, userVars, send>>

\* (mutant) a rejected fetch is issued once more
RelayForwardFailedRetried(s, k, outcome) ==
  /\ k \in 1..(Len(calls[s]) - 1)
  /\ calls[s][k].st = "forwarded"
  /\ Len(calls[s]) = k + 1
  /\ Rejected(calls[s][k + 1])
  /\ calls' = [calls EXCEPT ![s] =
                 Append(@, Fetch(calls[s][k + 1].port, calls[s][k + 1].body))]
  /\ UNCHANGED <<registryVars, routerVars, userVars, send>>

\* lines 71/77: the awaited fetch rejected, the handler throws
RelayForwardFailed(s, k, outcome) ==
  /\ k \in 1..(Len(calls[s]) - 1)
  /\ calls[s][k].st = "forwarded"
  /\ Rejected(calls[s][k + 1])
  /\ calls' = [calls EXCEPT ![s][k].st = outcome]
  /\ UNCHANGED <<registryVars, routerVars, userVars, send>>

\* -------------------------------------------------------------- user /message
UserReceive(s, k) ==
  /\ k \in 1..Len(calls[s])
  /\ calls[s][k].st = "sent"
  /\ IsUserPort(calls[s][k].port)
  /\ lastReceivedMessage' = Some(calls[s][k].body)
  /\ calls' = [calls EXCEPT ![s][k].st = "ok"]
  /\ UNCHANGED <<registryVars, routerVars, lastSentMessage, lastCircuit, send>>

\* a send causes at most one request per node of the circuit and one to the recipient
MaxCalls == CIRCUIT_LEN + 1
RegisteredKeys == (1..keyCount) \cup {BadKey}

Next ==
  \/ \E r \in NodeIds : RouterRegister(r)
  \/ \E r \in NodeIds : RouterListen(r)
  \/ \E r \in NodeIds, k \in RegisteredKeys : ExternalRegister(r, k)
  \/ \E s \in Sends, m \in Messages, d \in DestinationUserIds : SendMessage(s, m, d)
  \/ \E s \in Sends : GetNodeRegistry(s)
  \/ \E s \in Sends : SelectThrows(s)
  \/ \E s \in Sends, idx \in 1..(MaxNodeId + 1 + MaxExternalRegistrations) : SelectNode(s, idx)
  \/ \E s \in Sends : WrapAndDeliver(s)
  \/ \E s \in Sends : SendComplete(s)
  \/ \E s \in Sends : SendDeliverFailed(s)
  \/ \E s \in Sends, k \in 1..MaxCalls : RelayReceive(s, k)
  \/ \E s \in Sends, k \in 1..MaxCalls, o \in ThrowOutcomes : RelayPeelThrows(s, k, o)
  \/ \E s \in Sends, k \in 1..MaxCalls : RelayPeel(s, k)
  \/ \E s \in Sends, k \in 1..MaxCalls : RelayRespond(s, k)
  \/ \E s \in Sends, k \in 1..MaxCalls, o \in ThrowOutcomes : RelayForwardFailed(s, k, o)
  \/ \E s \in Sends, k \in 1..MaxCalls : UserReceive(s, k)

Spec == Init /\ [][Next]_vars

TypeOK ==
  /\ \A s \in Sends : Len(calls[s]) <= MaxCalls
  /\ Len(nodes) <= MaxNodeId + 1 + MaxExternalRegistrations

\* ===================================================================== claims
\* the node identifiers of a registry snapshot
SnapshotIds(registry) == {registry[j].nodeId : j \in 1..Len(registry)}
\* the send has left the selection loop with a circuit
CircuitBuilt(s) ==
  \/ send[s].pc \in {"wrap", "deliver", "done"}
  \/ send[s].pc = "failed" /\ send[s].error # "TypeError"
\* the send has built its wire message and requested the entry node
Wrapped(s) == calls[s] # <<>>
\* request k of send s is addressed to a router
AtRouter(s, k) == k \in 1..Len(calls[s]) /\ IsRouterPort(calls[s][k].port)
RouterOf(s, k) == RouterAt(calls[s][k].port)
\* the port that layer i of the circuit of send s is to name
LayerPort(s, i) ==
  IF i = CIRCUIT_LEN THEN BASE_USER_PORT + send[s].destinationUserId
  ELSE BASE_ONION_ROUTER_PORT + send[s].circuit[i + 1]
\* the snapshot gives, for every node of the circuit, the key pair that the
\* router of that identifier holds
OwnKeys(s) ==
  \A i \in 1..Len(send[s].circuit) :
    LET f == Find(send[s].nodes, send[s].circuit[i]) IN
      f # 0 /\ send[s].nodes[f].pubKey = prvKey[send[s].circuit[i]]

\* C1: round trip.  For every plaintext, destination user and circuit of three
\* registered relays with their own keys, peeling the sender's wire message
\* three times in path order gives the next relay's address at hops 0 and 1,
\* and the destination user's port and the plaintext at hop 2.
C1_RoundTrip ==
  \A s \in Sends :
    (Wrapped(s) /\ OwnKeys(s)) =>
      LET c == send[s].circuit
          w0 == calls[s][1].body
          d0 == DecryptedMessage(w0, prvKey[c[1]])
          w1 == RemainingMessage(d0)
          d1 == DecryptedMessage(w1, prvKey[c[2]])
          w2 == RemainingMessage(d1)
          d2 == DecryptedMessage(w2, prvKey[c[3]])
      IN /\ ~PeelThrows(w0, prvKey[c[1]])
         /\ parseInt(Destination(d0)) = LayerPort(s, 1)
         /\ ~PeelThrows(w1, prvKey[c[2]])
         /\ parseInt(Destination(d1)) = LayerPort(s, 2)
         /\ ~PeelThrows(w2, prvKey[c[3]])
         /\ parseInt(Destination(d2)) = LayerPort(s, 3)
         /\ RemainingMessage(d2) = send[s].message

\* C2: fixed framing.  In every layer the sender produces, the destination
\* field is 10 characters wide whatever the port, so the relay's cut at
\* character 10 gives back the field and, after it, what followed the field.
C2_FixedFraming ==
  \A s \in Sends :
    Wrapped(s) =>
      \A i \in 1..CIRCUIT_LEN :
        LET field == LayerDestination(send[s].circuit, send[s].destinationUserId, i)
            framed == field \o send[s].message
        IN /\ Len(field) = DEST_FIELD_LEN
           /\ Destination(framed) = field
           /\ RemainingMessage(framed) = send[s].message
           /\ parseInt(Destination(framed)) = LayerPort(s, i)

\* the selection loop of send s can no longer change the circuit: every node
\* of the snapshot is in it already, and the loop condition stays true
LoopStuck(s) ==
  /\ send[s].pc = "select"
  /\ Len(send[s].nodes) > 0
  /\ \A idx \in 1..Len(send[s].nodes) :
       CircuitStep(send[s].circuit, send[s].nodes[idx]) = send[s].circuit

\* C3: insufficient pool.  With fewer than 3 distinct identifiers in the
\* snapshot, circuit construction ends in an error: the loop is never left
\* turning without an exit, and no circuit shorter than 3 comes out of it.
\* (Any thrown error counts as the error outcome here.)
C3_InsufficientPool ==
  \A s \in Sends :
    (send[s].pc \notin {"idle", "getNodeRegistry"}
       /\ Cardinality(SnapshotIds(send[s].nodes)) < CIRCUIT_LEN) =>
      /\ ~LoopStuck(s)
      /\ send[s].pc \in {"select", "failed"}

\* C4: distinctness.  A circuit that left the selection loop has exactly 3
\* elements, pairwise distinct, each the identifier of a node of the snapshot
\* read for that send (whatever the registry holds, duplicates included); the
\* circuit recorded as lastCircuit is such a circuit too.
C4_Distinctness ==
  /\ \A s \in Sends :
       CircuitBuilt(s) =>
         /\ Len(send[s].circuit) = CIRCUIT_LEN
         /\ \A i, j \in 1..Len(send[s].circuit) :
              i # j => send[s].circuit[i] # send[s].circuit[j]
         /\ \A i \in 1..Len(send[s].circuit) :
              send[s].circuit[i] \in SnapshotIds(send[s].nodes)
  /\ lastCircuit # None =>
       /\ Len(lastCircuit[1]) = CIRCUIT_LEN
       /\ Cardinality({lastCircuit[1][i] : i \in 1..Len(lastCircuit[1])}) = CIRCUIT_LEN
\* a circuit was built from a snapshot that lists an identifier twice
C4_Witness ==
  \E s \in Sends :
    /\ CircuitBuilt(s)
    /\ Len(send[s].nodes) > Cardinality(SnapshotIds(send[s].nodes))

\* the snapshot lists every node of the circuit exactly once
RegisteredOnce(s) ==
  \A i \in 1..Len(send[s].circuit) :
    Cardinality({j \in 1..Len(send[s].nodes) :
                   send[s].nodes[j].nodeId = send[s].circuit[i]}) = 1
\* no request of the send was refused or left unanswered
ReliableTransport(s) == \A k \in 1..Len(calls[s]) : ~Rejected(calls[s][k])

\* C5: end-to-end scenario.  With relays A, B, C registered once each under
\* their own keys and reliable transport, a completed send of m to user U over
\* [A, B, C] has delivered m to U's port, m is the last received message, and
\* A, B and C have recorded the port of B, of C and of U.
C5_Scenario ==
  \A s \in Sends :
    (send[s].pc = "done" /\ RegisteredOnce(s) /\ OwnKeys(s) /\ ReliableTransport(s)) =>
      LET c == send[s].circuit IN
        /\ Len(calls[s]) = CIRCUIT_LEN + 1
        /\ calls[s][CIRCUIT_LEN + 1].port = BASE_USER_PORT + send[s].destinationUserId
        /\ calls[s][CIRCUIT_LEN + 1].body = send[s].message
        /\ calls[s][CIRCUIT_LEN + 1].st = "ok"
        /\ lastReceivedMessage = Some(send[s].message)
        /\ \A i \in 1..CIRCUIT_LEN : lastMessageDestination[c[i]] = Some(LayerPort(s, i))

\* the message is no layer for the holder of privateKey: it does not open
\* with a whole RSA ciphertext under that key, followed by a whole AES
\* ciphertext under the key wrapped in it
NotForKey(message, privateKey) ==
  ~(/\ Len(message) = 2
    /\ message[1].t = "rsa" /\ message[1].pub = privateKey
    /\ message[2].t = "aes" /\ message[2].key = message[1].data)

\* C6: layer isolation and rejection.  When a relay's handler goes on from a
\* received message that is no layer for its private key, the handler throws:
\* it sends no request, and the relay's recorded decrypted message and
\* destination stay as they were.
C6_Rejection ==
  [][\A s \in Sends : \A k \in 1..Len(calls[s]) :
       (/\ calls[s][k].st = "received"
        /\ calls'[s][k].st # "received"
        /\ NotForKey(calls[s][k].body, prvKey[RouterOf(s, k)]))
       => /\ calls'[s][k].st \in ThrowOutcomes
          /\ Len(calls'[s]) = Len(calls[s])
          /\ lastReceivedDecryptedMessage' = lastReceivedDecryptedMessage
          /\ lastMessageDestination' = lastMessageDestination]_vars
\* a relay has rejected a layer wrapped under another key pair's public key
C6_Witness ==
  \E s \in Sends : \E k \in 1..Len(calls[s]) :
    /\ AtRouter(s, k)
    /\ calls[s][k].st \in ThrowOutcomes
    /\ Len(calls[s]) = k
    /\ calls[s][k].body[1].t = "rsa"
    /\ calls[s][k].body[1].pub >= 1
    /\ calls[s][k].body[1].pub # prvKey[RouterOf(s, k)]
    /\ lastReceivedEncryptedMessage[RouterOf(s, k)] = Some(calls[s][k].body)
    /\ lastReceivedDecryptedMessage[RouterOf(s, k)] = None

\* C7: relay forwarding.  After a successful peel the relay sends to the
\* decoded destination exactly what follows the 10-character destination
\* field of the decrypted payload, with nothing put back in front.
C7_Forwarding ==
  \A s \in Sends : \A k \in 1..(Len(calls[s]) - 1) :
    AtRouter(s, k) =>
      LET decryptedMessage == DecryptedMessage(calls[s][k].body, prvKey[RouterOf(s, k)]) IN
        /\ calls[s][k + 1].port = parseInt(SliceTo(decryptedMessage, DEST_FIELD_LEN))
        /\ calls[s][k + 1].body = SliceFrom(decryptedMessage, DEST_FIELD_LEN)

\* C8: no upstream error or acknowledgment.  Once a listener has accepted a
\* hand-off, what the one who handed off observes does not depend on what
\* happens further down: the sender's fetch to a listening entry node resolves
\* with status 200 and the send completes, and a relay whose peel succeeded
\* and whose next hop listens answers 200.
C8_NoUpstreamEffect ==
  \A s \in Sends :
    /\ (Wrapped(s) /\ calls[s][1].st # "refused") =>
         /\ send[s].pc \in {"deliver", "done"}
         /\ send[s].fetched \in {"none", "200"}
    /\ \A k \in 1..(Len(calls[s]) - 1) :
         calls[s][k + 1].st # "refused" => calls[s][k].st \in {"forwarded", "ok"}

\* the snapshot holds no importable public key for the node
NoKeyIn(registry, nodeId) ==
  \A j \in 1..Len(registry) :
    registry[j].nodeId = nodeId => registry[j].pubKey < 1

\* C9: unknown node.  When the snapshot holds no public key for a relay of
\* the circuit, the send does not go past the wrap loop: it throws there, and
\* no request, of a whole or of a partly wrapped message, goes to any relay.
C9_UnknownNode ==
  \A s \in Sends :
    (CircuitBuilt(s) /\ \E i \in 1..Len(send[s].circuit) :
                          NoKeyIn(send[s].nodes, send[s].circuit[i])) =>
      /\ send[s].pc \in {"wrap", "failed"}
      /\ calls[s] = <<>>
\* a send has thrown in its wrap loop for want of a public key
C9_Witness ==
  \E s \in Sends :
    /\ send[s].pc = "failed"
    /\ send[s].error = "KeyImportError"
    /\ \E i \in 1..Len(send[s].circuit) : NoKeyIn(send[s].nodes, send[s].circuit[i])
    /\ calls[s] = <<>>

\* C10: registration is an idempotent add.  A registration of a (nodeId,
\* pubKey) that the registry holds already leaves the registry as it was.
C10_IdempotentAdd ==
  [][(/\ Len(nodes') = Len(nodes) + 1
      /\ \E j \in 1..Len(nodes) : nodes[j] = nodes'[Len(nodes')])
     => nodes' = nodes]_vars

\* --------------------------------------------------------- user observations
\* GET /getLastReceivedMessage, /getLastSentMessage, /getLastCircuit of the
\* instance user(userId): each answers from the variables of lines 20-22,
\* which the module declares once for all instances
getLastReceivedMessage(userId) == lastReceivedMessage
getLastSentMessage(userId) == lastSentMessage
getLastCircuit(userId) == lastCircuit
\* the instance whose /sendMessage handles send s (the handler reads no userId)
SendingUserId(s) == 1
\* the step answers a request to /message of user(userId)
DeliveryTo(userId) ==
  \E s \in Sends : \E k \in 1..Len(calls[s]) :
    /\ calls[s][k].port = BASE_USER_PORT + userId
    /\ calls[s][k].st = "sent"
    /\ calls'[s][k].st = "ok"
\* the step is one of a /sendMessage handler of user(userId)
SendStepOf(userId) ==
  \E s \in Sends : SendingUserId(s) = userId /\ send'[s] # send[s]

\* C11: instance-scoped observation state.  What a user instance reports as
\* its last received message, last sent message and last circuit changes only
\* by a delivery to that instance's /message or by a send that instance issued.
C11_InstanceScoped ==
  [][\A userId \in UserIds :
       (\/ getLastReceivedMessage(userId)' # getLastReceivedMessage(userId)
        \/ getLastSentMessage(userId)' # getLastSentMessage(userId)
        \/ getLastCircuit(userId)' # getLastCircuit(userId))
       => (DeliveryTo(userId) \/ SendStepOf(userId))]_vars

\* C12: last-sent state is recorded after delivery.  The last circuit and the
\* last sent message change only in the step in which a send's request to its
\* entry node has been answered, and then both take the values of that send; a
\* send that throws before that (circuit selection, wrap loop, refused or
\* unanswered request) changes neither.
C12_RecordedAfterDelivery ==
  [][(lastCircuit' # lastCircuit \/ lastSentMessage' # lastSentMessage)
     => \E s \in Sends :
          /\ send[s].pc = "deliver"
          /\ send'[s].pc = "done"
          /\ lastCircuit' = Some(send[s].circuit)
          /\ lastSentMessage' = Some(send[s].message)]_vars

\* ------------------------------------------------- the network once started
\* Routers 0, 1 and 2 have generated their keys, registered in this order and
\* listen.  OwnRegistry is the registry they leave; MisKeyedRegistry is the one
\* they leave when another client registered (1, key of router 0) between the
\* registrations of routers 0 and 1.
StartedKeys == [r \in NodeIds |-> r + 1]
OwnRegistry ==
  [j \in 1..(MaxNodeId + 1) |-> [nodeId |-> j - 1, pubKey |-> StartedKeys[j - 1]]]
MisKeyedRegistry ==
  <<OwnRegistry[1], [nodeId |-> 1, pubKey |-> StartedKeys[0]]>> \o Tail(OwnRegistry)

StartedInit ==
  /\ nodes \in {OwnRegistry, MisKeyedRegistry}
  /\ phase = [r \in NodeIds |-> "listening"]
  /\ prvKey = StartedKeys
  /\ keyCount = MaxNodeId + 1
  /\ extRegs = Len(nodes) - (MaxNodeId + 1)
  /\ lastReceivedEncryptedMessage = [r \in NodeIds |-> None]
  /\ lastReceivedDecryptedMessage = [r \in NodeIds |-> None]
  /\ lastMessageDestination = [r \in NodeIds |-> None]
  /\ lastReceivedMessage = None
  /\ lastSentMessage = None
  /\ lastCircuit = None
  /\ send = [s \in Sends |-> IdleSend]
  /\ calls = [s \in Sends |-> <<>>]

\* the handlers of users and routers (the registry is read, not written)
StartedNext ==
  \/ \E s \in Sends, m \in Messages, d \in DestinationUserIds : SendMessage(s, m, d)
  \/ \E s \in Sends : GetNodeRegistry(s)
  \/ \E s \in Sends, idx \in 1..(MaxNodeId + 1 + MaxExternalRegistrations) : SelectNode(s, idx)
  \/ \E s \in Sends : WrapAndDeliver(s)
  \/ \E s \in Sends : SendComplete(s)
  \/ \E s \in Sends : SendDeliverFailed(s)
  \/ \E s \in Sends, k \in 1..MaxCalls : RelayReceive(s, k)
  \/ \E s \in Sends, k \in 1..MaxCalls, o \in ThrowOutcomes : RelayPeelThrows(s, k, o)
  \/ \E s \in Sends, k \in 1..MaxCalls : RelayPeel(s, k)
  \/ \E s \in Sends, k \in 1..MaxCalls : RelayRespond(s, k)
  \/ \E s \in Sends, k \in 1..MaxCalls, o \in ThrowOutcomes : RelayForwardFailed(s, k, o)
  \/ \E s \in Sends, k \in 1..MaxCalls : UserReceive(s, k)

\* a continuation of a handler that is ready to run: a request that reached
\* a listener, or a handler whose awaited promise has settled
HandlerStep ==
  \/ \E s \in Sends : SendComplete(s) \/ SendDeliverFailed(s)
  \/ \E s \in Sends, k \in 1..MaxCalls :
       \/ RelayReceive(s, k)
       \/ \E o \in ThrowOutcomes : RelayPeelThrows(s, k, o)
       \/ RelayPeel(s, k)
       \/ RelayRespond(s, k)
       \/ \E o \in ThrowOutcomes : RelayForwardFailed(s, k, o)
       \/ UserReceive(s, k)
\* Node's event loop does not stop while a continuation is ready
HandlerFairness == WF_vars(HandlerStep)

FairSpec == StartedInit /\ [][StartedNext]_vars /\ HandlerFairness

\* the relay's handler for request k of send s has answered after its
\* hand-off to the decoded destination completed
Forwarded(s, k) ==
  /\ calls[s][k].st = "ok"
  /\ Len(calls[s]) > k
  /\ Resolved(calls[s][k + 1])
\* the handler has thrown in the peel and has handed nothing off
RejectedAt(s, k) ==
  /\ calls[s][k].st \in ThrowOutcomes
  /\ Len(calls[s]) = k
\* the hand-off was made and the next hop does not answer it
HandOffUnanswered(s, k) ==
  /\ Len(calls[s]) > k
  /\ Rejected(calls[s][k + 1])

\* C13: relay terminal states.  Every message a relay has received leads to
\* Forwarded or to Rejected, unless the next hop leaves the hand-off
\* unanswered; the two exclude each other, and after a failed peel the handler
\* does not stay pending.
C13_TerminalStates ==
  \A s \in Sends : \A k \in 1..MaxCalls :
    (AtRouter(s, k) /\ calls[s][k].st = "received")
      ~> (AtRouter(s, k)
          /\ (Forwarded(s, k) \/ RejectedAt(s, k) \/ HandOffUnanswered(s, k))
          /\ ~(Forwarded(s, k) /\ RejectedAt(s, k)))
\* one relay of a send has ended Forwarded and the next one Rejected
C13_Witness ==
  \E s \in Sends :
    /\ AtRouter(s, 1) /\ Forwarded(s, 1)
    /\ AtRouter(s, 2) /\ RejectedAt(s, 2)

\* C14: at-most-once forwarding.  A send gets a new /message request only as
\* the sender's one request to the entry node or as the one request of the
\* relay that has just peeled the latest request; requests made are not made
\* again after a failed peel or a failed hand-off, and a send's plaintext is
\* delivered to a user at most once.
C14_AtMostOnce ==
  [][\A s \in Sends :
       /\ Len(calls'[s]) > Len(calls[s]) =>
            /\ Len(calls'[s]) = Len(calls[s]) + 1
            /\ \/ /\ calls[s] = <<>>
                  /\ send[s].pc = "wrap" /\ send'[s].pc = "deliver"
               \/ /\ calls[s] # <<>>
                  /\ calls[s][Len(calls[s])].st = "received"
                  /\ calls'[s][Len(calls[s])].st = "forwarded"
       /\ \A k \in 1..Len(calls[s]) :
            /\ k <= Len(calls'[s])
            /\ calls'[s][k].port = calls[s][k].port
            /\ calls'[s][k].body = calls[s][k].body
            /\ (IsUserPort(calls[s][k].port) /\ calls[s][k].st = "sent"
                  /\ calls'[s][k].st = "ok")
               => \A j \in 1..Len(calls[s]) :
                    j # k => ~IsUserPort(calls[s][j].port)]_vars
\* a relay's hand-off failed, its handler has thrown, and no request followed
C14_Witness ==
  \E s \in Sends : \E k \in 1..(Len(calls[s]) - 1) :
    /\ AtRouter(s, k)
    /\ Len(calls[s]) = k + 1
    /\ Rejected(calls[s][k + 1])
    /\ calls[s][k].st \in ThrowOutcomes

\* the relay's handler for request k of send s is past its peel
Peeled(s, k) ==
  /\ AtRouter(s, k)
  /\ calls[s][k].st \in {"forwarded", "ok"} \cup ThrowOutcomes
  /\ ~PeelThrows(calls[s][k].body, prvKey[RouterOf(s, k)])

\* C15: strictly sequential path.  The first request of a send goes to the
\* first relay of its circuit; every later request exists only once the relay
\* of the request before it has completed its peel; requests 1 to 3 go to the
\* relays of the circuit in circuit order, and a user is reached only by the
\* request after those three.
C15_SequentialPath ==
  \A s \in Sends : \A k \in 1..Len(calls[s]) :
    /\ k > 1 => Peeled(s, k - 1)
    /\ k <= CIRCUIT_LEN =>
         calls[s][k].port = BASE_ONION_ROUTER_PORT + send[s].circuit[k]
    /\ IsUserPort(calls[s][k].port) => k = CIRCUIT_LEN + 1
\* a user has received a send's message while the three relays of the
\* circuit, each past its peel, still await their hand-offs
C15_Witness ==
  \E s \in Sends :
    /\ Len(calls[s]) = CIRCUIT_LEN + 1
    /\ IsUserPort(calls[s][CIRCUIT_LEN + 1].port)
    /\ calls[s][CIRCUIT_LEN + 1].st = "ok"
    /\ \A k \in 1..CIRCUIT_LEN : calls[s][k].st = "forwarded"

\* ------------------------------------------------------ concurrent requests
\* Several /sendMessage requests in flight at once on the started network:
\* the handlers of all of them interleave at their awaits.
MaxFlows == 2
Flows == 1..MaxFlows

\* the request bodies of the concurrent sends: "hi" for user 1, "7" for user 27010
FlowBodies ==
  {[message |-> Hi, destinationUserId |-> 1],
   [message |-> Seven, destinationUserId |-> 27010]}

FlowInit ==
  /\ nodes \in {OwnRegistry, MisKeyedRegistry}
  /\ phase = [r \in NodeIds |-> "listening"]
  /\ prvKey = StartedKeys
  /\ keyCount = MaxNodeId + 1
  /\ extRegs = Len(nodes) - (MaxNodeId + 1)
  /\ lastReceivedEncryptedMessage = [r \in NodeIds |-> None]
  /\ lastReceivedDecryptedMessage = [r \in NodeIds |-> None]
  /\ lastMessageDestination = [r \in NodeIds |-> None]
  /\ lastReceivedMessage = None
  /\ lastSentMessage = None
  /\ lastCircuit = None
  /\ send = [s \in Flows |-> IdleSend]
  /\ calls = [s \in Flows |-> <<>>]

FlowNext ==
  \/ \E s \in Flows, body \in FlowBodies :
       SendMessage(s, body.message, body.destinationUserId)
  \/ \E s \in Flows : GetNodeRegistry(s)
  \/ \E s \in Flows, idx \in 1..(MaxNodeId + 1 + MaxExternalRegistrations) : SelectNode(s, idx)
  \/ \E s \in Flows : WrapAndDeliver(s)
  \/ \E s \in Flows : SendComplete(s)
  \/ \E s \in Flows : SendDeliverFailed(s)
  \/ \E s \in Flows, k \in 1..MaxCalls : RelayReceive(s, k)
  \/ \E s \in Flows, k \in 1..MaxCalls, o \in ThrowOutcomes : RelayPeelThrows(s, k, o)
  \/ \E s \in Flows, k \in 1..MaxCalls : RelayPeel(s, k)
  \/ \E s \in Flows, k \in 1..MaxCalls : RelayRespond(s, k)
  \/ \E s \in Flows, k \in 1..MaxCalls, o \in ThrowOutcomes : RelayForwardFailed(s, k, o)
  \/ \E s \in Flows, k \in 1..MaxCalls : UserReceive(s, k)

FlowSpec == FlowInit /\ [][FlowNext]_vars

\* every request of flow s carries what its own predecessor decodes to: the
\* first is the flow's own wrapped message for the first node of its circuit,
\* and each later one has the destination and the body that the relay's key
\* decodes from the request before it
OwnHops(s) ==
  /\ Wrapped(s) =>
       /\ calls[s][1].port = BASE_ONION_ROUTER_PORT + send[s].circuit[1]
       /\ calls[s][1].body =
            WrapLoop(s, send[s].nodes, send[s].circuit, send[s].destinationUserId,
                     Len(send[s].circuit), send[s].message)
  /\ \A k \in 1..(Len(calls[s]) - 1) :
       LET decryptedMessage ==
             DecryptedMessage(calls[s][k].body, prvKey[RouterOf(s, k)])
       IN /\ AtRouter(s, k)
          /\ calls[s][k + 1].port = parseInt(Destination(decryptedMessage))
          /\ calls[s][k + 1].body = ForwardBody(decryptedMessage)
\* what flow s hands to a user is its own plaintext, at its own recipient's port
OwnDelivery(s) ==
  \A k \in 1..Len(calls[s]) :
    IsUserPort(calls[s][k].port) =>
      /\ calls[s][k].port = BASE_USER_PORT + send[s].destinationUserId
      /\ calls[s][k].body = send[s].message

\* C16: independence of concurrent flows.  With several messages in flight
\* and their handlers interleaved at every await, each message is forwarded
\* at every hop with the destination and remainder decoded from that same
\* message, and reaches its own recipient with its own plaintext.
C16_ConcurrentFlows ==
  (\A s \in Flows : send[s].pc # "idle") =>
    \A s \in Flows : OwnHops(s) /\ OwnDelivery(s)
\* the part of C16 that does not depend on the width of the port: no request
\* of a flow carries anything decoded from another flow's message
C16_OwnHopsOnly == \A s \in Flows : OwnHops(s)

\* the entries GET /getNodeRegistry returns from a registry
Entries(registry) == {registry[j] : j \in 1..Len(registry)}

\* C17: append-only directory.  Every entry a lookup has returned is in the
\* registry, with the same key, at every later time; a step changes the
\* registry only by adding an entry after those it holds; a lookup returns the
\* registry and leaves it as it is; and the registrations of two different
\* relays, each with its key, give the same set of entries in either order.
C17_AppendOnly ==
  /\ [](\A s \in Sends : Entries(send[s].nodes) \subseteq Entries(nodes))
  /\ [](\A n1, n2 \in NodeIds :
          n1 # n2 =>
            Entries(registerNode(registerNode(nodes, n1, StartedKeys[n1]),
                                 n2, StartedKeys[n2]))
              = Entries(registerNode(registerNode(nodes, n2, StartedKeys[n2]),
                                     n1, StartedKeys[n1])))
  /\ [][/\ Len(nodes') >= Len(nodes)
        /\ \A j \in 1..Len(nodes) : nodes'[j] = nodes[j]
        /\ \A s \in Sends :
             (send[s].pc = "getNodeRegistry" /\ send'[s].pc # "getNodeRegistry")
               => (nodes' = nodes /\ send'[s].nodes = nodes)]_vars
\* a send holds a snapshot, and registrations followed it: the registry is
\* longer than the snapshot and lists an identifier twice
C17_Witness ==
  \E s \in Sends :
    /\ send[s].pc \notin {"idle", "getNodeRegistry"}
    /\ Len(send[s].nodes) > 0
    /\ Len(send[s].nodes) < Len(nodes)
    /\ Len(nodes) > Cardinality(SnapshotIds(nodes))

\* relay r has no /message handler between its start and its end
RelayIdle(r) ==
  \A s \in Flows : \A k \in 1..Len(calls[s]) :
    (AtRouter(s, k) /\ RouterOf(s, k) = r) =>
      calls[s][k].st \notin {"received", "forwarded"}
\* the handler of relay r has taken up request k of flow s
TakenUp(s, k, r) ==
  /\ AtRouter(s, k) /\ RouterOf(s, k) = r
  /\ calls[s][k].st \notin {"sent", "refused"}

\* C18 as stated: whenever relay r is idle, its three fields describe one
\* message: the recorded decrypted message is the decryption of the recorded
\* encrypted message, and the recorded destination is parsed from it.
C18_OneMessage ==
  \A r \in NodeIds :
    RelayIdle(r) =>
      IF lastReceivedEncryptedMessage[r] = None
      THEN /\ lastReceivedDecryptedMessage[r] = None
           /\ lastMessageDestination[r] = None
      ELSE /\ ~PeelThrows(lastReceivedEncryptedMessage[r][1], prvKey[r])
           /\ lastReceivedDecryptedMessage[r] =
                Some(DecryptedMessage(lastReceivedEncryptedMessage[r][1], prvKey[r]))
           /\ lastMessageDestination[r] =
                Some(parseInt(Destination(
                       DecryptedMessage(lastReceivedEncryptedMessage[r][1], prvKey[r]))))

\* C18 as amended: at all times the recorded destination is the one parsed
\* from the recorded decrypted message, which is the decryption of a message
\* whose peel this relay completed; the recorded encrypted message is a
\* message the relay's handler has taken up, whatever became of its peel.
C18_DecryptedAndDestination ==
  \A r \in NodeIds :
    /\ IF lastReceivedDecryptedMessage[r] = None
       THEN lastMessageDestination[r] = None
       ELSE /\ lastMessageDestination[r] =
                 Some(parseInt(Destination(lastReceivedDecryptedMessage[r][1])))
            /\ \E s \in Flows : \E k \in 1..Len(calls[s]) :
                 /\ TakenUp(s, k, r)
                 /\ ~PeelThrows(calls[s][k].body, prvKey[r])
                 /\ calls[s][k].st # "received"
                 /\ lastReceivedDecryptedMessage[r] =
                      Some(DecryptedMessage(calls[s][k].body, prvKey[r]))
    /\ lastReceivedEncryptedMessage[r] # None =>
         \E s \in Flows : \E k \in 1..Len(calls[s]) :
           /\ TakenUp(s, k, r)
           /\ lastReceivedEncryptedMessage[r] = Some(calls[s][k].body)
\* an idle relay whose recorded encrypted message is another flow's than the
\* one its recorded decrypted message and destination come from
C18_Witness ==
  \E r \in NodeIds :
    /\ RelayIdle(r)
    /\ lastReceivedEncryptedMessage[r] # None
    /\ lastReceivedDecryptedMessage[r] # None
    /\ ~PeelThrows(lastReceivedEncryptedMessage[r][1], prvKey[r])
    /\ lastReceivedDecryptedMessage[r] #
         Some(DecryptedMessage(lastReceivedEncryptedMessage[r][1], prvKey[r]))
    /\ lastMessageDestination[r] =
         Some(parseInt(Destination(lastReceivedDecryptedMessage[r][1])))

\* the positions at which the registry lists nodeId, and the key of the
\* earliest registration of nodeId
PositionsOf(registry, nodeId) ==
  {j \in 1..Len(registry) : registry[j].nodeId = nodeId}
FirstRegisteredKey(registry, nodeId) ==
  registry[CHOOSE j \in PositionsOf(registry, nodeId) :
             \A h \in PositionsOf(registry, nodeId) : j <= h].pubKey
\* layer i of a wire message: the RSA and AES ciphertexts at the end of the
\* plaintext of layer i - 1
RECURSIVE LayerOf(_, _)
LayerOf(wire, i) ==
  IF i = 1 THEN wire
  ELSE LET data == wire[2].data
       IN LayerOf(<<data[Len(data) - 1], data[Len(data)]>>, i - 1)
\* the registry lists relay r under several keys, and the key pair r holds is
\* not the one of its earliest registration
HoldsLaterKey(r) ==
  /\ \E j \in PositionsOf(nodes, r) : nodes[j].pubKey = prvKey[r]
  /\ FirstRegisteredKey(nodes, r) # prvKey[r]

\* C19: first-registered key.  Every layer of a wrapped message is under the
\* key of the earliest registration of its node, however many later
\* registrations the registry holds for that identifier; a relay that holds
\* the key of a later registration forwards no message routed through it.
C19_FirstRegisteredKey ==
  \A s \in Sends :
    Wrapped(s) =>
      /\ \A i \in 1..CIRCUIT_LEN :
           LayerOf(calls[s][1].body, i)[1].pub
             = FirstRegisteredKey(nodes, send[s].circuit[i])
      /\ \A k \in 1..Len(calls[s]) :
           (AtRouter(s, k) /\ HoldsLaterKey(RouterOf(s, k))) =>
             /\ Len(calls[s]) = k
             /\ calls[s][k].st \notin {"forwarded", "ok"}
\* a relay that holds the key of its later registration has rejected a message
C19_Witness ==
  \E s \in Sends : \E k \in 1..Len(calls[s]) :
    /\ AtRouter(s, k)
    /\ HoldsLaterKey(RouterOf(s, k))
    /\ FirstRegisteredKey(nodes, RouterOf(s, k)) >= 1
    /\ calls[s][k].st \in ThrowOutcomes
    /\ LayerOf(calls[s][1].body, k)[1].pub = FirstRegisteredKey(nodes, RouterOf(s, k))
====
